---- MODULE Spec2Model ----
(***************************************************************************)
(* Model of app.py: the scoreboard report pipeline (fetch_games,           *)
(* summarize_game, predict_winner, build_daily_report), the /today and     *)
(* /start command handlers and the webhook endpoint.                       *)
(*                                                                         *)
(* Python strings are TLA+ strings; texts are built with \o exactly where  *)
(* the source builds them with f-strings and join.  The four non-ASCII     *)
(* glyphs of the source are spelled by their code points (CROSS_MARK,      *)
(* CALENDAR, BULLET, EM_DASH).  A call either returns a value or raises:   *)
(* an outcome is a record [kind, value] or [kind, exc].                    *)
(***************************************************************************)
EXTENDS Integers, Sequences, FiniteSets, TLC

(* ------------------------------ bounds -------------------------------- *)
\* longest events list the scoreboard source answers with
MaxGames == 2
\* most argument tokens after /today
MaxArgs == 2

(* ------------------------- glyphs of the source ----------------------- *)
CROSS_MARK == "<U+274C>"
CALENDAR == "<U+1F4C5>"
BULLET == "<U+2022>"
EM_DASH == "<U+2014>"

(* ------------------------------ config -------------------------------- *)
\* os.getenv returns None for a variable that is not set
None == "<None>"

\* values the process environment may hold for WEBHOOK_SECRET
EnvValues == {None, "prod-secret"}

getenv(value, default) == IF value = None THEN default ELSE value

\* WEBHOOK_SECRET = os.getenv("WEBHOOK_SECRET", "secret123")
WEBHOOK_SECRET(env) == getenv(env, "secret123")

\* the scoreboard endpoints, keyed by league
ESPN_SCOREBOARD ==
  [mlb |-> "https://site.api.espn.com/apis/v2/sports/baseball/mlb/scoreboard",
   nfl |-> "https://site.api.espn.com/apis/v2/sports/football/nfl/scoreboard"]

(* --------------------------- str methods ------------------------------ *)
LowerChars == "abcdefghijklmnopqrstuvwxyz"
UpperChars == "ABCDEFGHIJKLMNOPQRSTUVWXYZ"
DigitChars == "0123456789"

CharAt(s, i) == SubSeq(s, i, i)

\* the position of character c in alphabet, 0 when it is not there
IndexIn(alphabet, c) ==
  IF \E i \in 1..Len(alphabet) : CharAt(alphabet, i) = c
  THEN CHOOSE i \in 1..Len(alphabet) : CharAt(alphabet, i) = c
  ELSE 0

upper_char(c) ==
  IF IndexIn(LowerChars, c) > 0 THEN CharAt(UpperChars, IndexIn(LowerChars, c)) ELSE c

lower_char(c) ==
  IF IndexIn(UpperChars, c) > 0 THEN CharAt(LowerChars, IndexIn(UpperChars, c)) ELSE c

\* upper left out: the text keeps the case of s
upper_unchanged(s) == s

RECURSIVE upper(_)
upper(s) == IF s = "" THEN "" ELSE upper_char(Head(s)) \o upper(Tail(s))

RECURSIVE lower(_)
lower(s) == IF s = "" THEN "" ELSE lower_char(Head(s)) \o lower(Tail(s))

\* sep.join(parts)
RECURSIVE join(_, _)
join(sep, parts) ==
  IF parts = <<>> THEN ""
  ELSE IF Len(parts) = 1 THEN parts[1]
  ELSE parts[1] \o sep \o join(sep, Tail(parts))

IsDigit(c) == IndexIn(DigitChars, c) > 0

\* int(x) of a string of decimal digits
RECURSIVE int(_)
int(x) ==
  IF Len(x) = 1 THEN IndexIn(DigitChars, x) - 1
  ELSE 10 * int(SubSeq(x, 1, Len(x) - 1)) + (IndexIn(DigitChars, CharAt(x, Len(x))) - 1)

\* str(n) of an int
str(n) == ToString(n)

\* re.findall(r"\d+", s): the maximal runs of digits, left to right
RECURSIVE findall_digits(_, _, _)
findall_digits(s, run, found) ==
  IF s = "" THEN (IF run = "" THEN found ELSE Append(found, run))
  ELSE IF IsDigit(Head(s)) THEN findall_digits(Tail(s), run \o Head(s), found)
  ELSE findall_digits(Tail(s), "", IF run = "" THEN found ELSE Append(found, run))

max(a, b) == IF a >= b THEN a ELSE b

\* d.get(key, default)
dict_get(d, key, default) == IF key \in DOMAIN d THEN d[key] ELSE default

(* ----------------------------- outcomes -------------------------------- *)
Return(v) == [kind |-> "return", value |-> v]
Raise(e) == [kind |-> "raise", exc |-> e]

(* ------------------------------ helpers ------------------------------- *)
\* _parse_record: "85-67" or "10-7-0" -> (wins, losses); fewer than two numbers -> (0, 0)
parse_record(rec_summary) ==
  LET nums == findall_digits(rec_summary, "", <<>>)
  IN IF Len(nums) >= 2 THEN <<int(nums[1]), int(nums[2])>> ELSE <<0, 0>>

\* wins / max(1, wins + losses), kept as the exact fraction num/den (den >= 1).
\* Float division is correctly rounded, so equal fractions give equal floats;
\* for records of this size different fractions give different floats.
pct_of(wins, losses) ==
  IF wins + losses > 0 THEN [num |-> wins, den |-> max(1, wins + losses)]
  ELSE [num |-> 0, den |-> 1]

\* a > b on two pct values
pct_gt(a, b) == a.num * b.den > b.num * a.den

\* team_info(c) inside summarize_game
team_info(c) ==
  LET record_summary == IF c.records # <<>> THEN c.records[1] ELSE ""
      wl == parse_record(record_summary)
      score == IF c.score # None /\ c.score # "" THEN int(c.score) ELSE 0
  IN [id |-> c.id, name |-> c.displayName, wins |-> wl[1], losses |-> wl[2],
      pct |-> pct_of(wl[1], wl[2]), score |-> score, home |-> (c.homeAway = "home")]

\* next(c for c in comp if c["homeAway"] == side): the first such competitor,
\* StopIteration when there is none
first_competitor(comp, side) ==
  LET hits == {i \in 1..Len(comp) : comp[i].homeAway = side}
  IN IF hits = {} THEN Raise("StopIteration")
     ELSE Return(comp[CHOOSE i \in hits : \A j \in hits : i <= j])

summarize_game(ev) ==
  LET home == first_competitor(ev.competitors, "home")
      away == first_competitor(ev.competitors, "away")
  IN IF home.kind = "raise" THEN home
     ELSE IF away.kind = "raise" THEN away
     ELSE Return([home |-> team_info(home.value), away |-> team_info(away.value),
                  status |-> ev.status, start |-> ev.date])

\* the ladder with the score rule before the record rule
predict_winner_score_first(g) ==
  LET home == g.home
      away == g.away
  IN IF home.score # away.score
     THEN <<(IF home.score > away.score THEN home ELSE away).name, "leading now">>
     ELSE IF pct_gt(home.pct, away.pct) THEN <<home.name, "better record">>
     ELSE IF pct_gt(away.pct, home.pct) THEN <<away.name, "better record">>
     ELSE <<home.name, "home edge">>

\* predict_winner(g) -> (pick name, reason)
predict_winner(g) ==
  LET home == g.home
      away == g.away
  IN IF pct_gt(home.pct, away.pct) THEN <<home.name, join(", ", <<"better record">>)>>
     ELSE IF pct_gt(away.pct, home.pct) THEN <<away.name, join(", ", <<"better record">>)>>
     ELSE IF home.score # away.score
          THEN <<(IF home.score > away.score THEN home ELSE away).name,
                 join(", ", <<"leading now">>)>>
          ELSE <<home.name, join(", ", <<"home edge">>)>>

(* ---------------------------- score fetcher --------------------------- *)
\* fetch_games(sport) against a scoreboard source.  source[league] is what the
\* endpoint of that league answers: [ok |-> FALSE, error |-> message] for a
\* transport failure or an HTTP error status, [ok |-> TRUE, data |-> body] for
\* a JSON body, a record that has an "events" key or not.
\* requests: the URLs the call sent a GET to.
fetch_games(sport, source) ==
  IF sport \notin DOMAIN ESPN_SCOREBOARD
  THEN [out |-> Raise("'" \o sport \o "'"), requests |-> <<>>]
  ELSE LET url == ESPN_SCOREBOARD[sport]
           r == source[sport]
       IN IF ~r.ok THEN [out |-> Raise(r.error), requests |-> <<url>>]
          ELSE [out |-> Return(dict_get(r.data, "events", <<>>)),
                requests |-> <<url>>]

(* ---------------------------- report builder -------------------------- *)
\* the line with the home score before the away score
game_line_home_first(g) ==
  LET pw == predict_winner(g)
      matchup == g.away.name \o " @ " \o g.home.name
      score == str(g.home.score) \o "-" \o str(g.away.score)
  IN BULLET \o " " \o matchup \o " " \o EM_DASH \o " pick: **" \o pw[1] \o "** (" \o pw[2]
       \o ")  [" \o g.status \o "; score " \o score \o "]"

\* one line of the report for the normalized game g
game_line(g) ==
  LET pw == predict_winner(g)
      pick == pw[1]
      why == pw[2]
      matchup == g.away.name \o " @ " \o g.home.name
      score == str(g.away.score) \o "-" \o str(g.home.score)
      status == g.status
  IN BULLET \o " " \o matchup \o " " \o EM_DASH \o " pick: **" \o pick \o "** (" \o why
       \o ")  [" \o status \o "; score " \o score \o "]"

\* the loop with a game that cannot be summarized skipped
RECURSIVE report_loop_skip(_, _, _)
report_loop_skip(events, lines, trace) ==
  IF events = <<>> THEN [out |-> Return(lines), trace |-> trace]
  ELSE LET g == summarize_game(Head(events))
       IN IF g.kind = "raise"
          THEN report_loop_skip(Tail(events), lines, Append(trace, "summarize_game"))
          ELSE report_loop_skip(Tail(events), Append(lines, game_line(g.value)),
                                trace \o <<"summarize_game", "predict_winner">>)

\* the for loop of build_daily_report: lines so far, helper calls so far
RECURSIVE report_loop(_, _, _)
report_loop(events, lines, trace) ==
  IF events = <<>> THEN [out |-> Return(lines), trace |-> trace]
  ELSE LET g == summarize_game(Head(events))
       IN IF g.kind = "raise"
          THEN [out |-> g, trace |-> Append(trace, "summarize_game")]
          ELSE report_loop(Tail(events), Append(lines, game_line(g.value)),
                           trace \o <<"summarize_game", "predict_winner">>)

\* the report with the fetch error left to propagate
build_daily_report_reraise(sport, source) ==
  LET f == fetch_games(sport, source)
  IN IF f.out.kind = "raise"
     THEN [out |-> f.out, requests |-> f.requests, trace |-> <<>>]
     ELSE IF f.out.value = <<>>
     THEN [out |-> Return("No " \o upper(sport) \o " games found for today."),
           requests |-> f.requests, trace |-> <<>>]
     ELSE LET loop == report_loop(f.out.value,
                                  <<CALENDAR \o " " \o upper(sport) \o " games & picks">>, <<>>)
          IN [out |-> IF loop.out.kind = "raise" THEN loop.out
                      ELSE Return(join("\n", loop.out.value)),
              requests |-> f.requests, trace |-> loop.trace]

\* the report without the test for an empty events list
build_daily_report_no_empty_test(sport, source) ==
  LET f == fetch_games(sport, source)
  IN IF f.out.kind = "raise"
     THEN [out |-> Return(CROSS_MARK \o " Could not fetch " \o upper(sport) \o " games: "
                            \o f.out.exc),
           requests |-> f.requests, trace |-> <<>>]
     ELSE LET loop == report_loop(f.out.value,
                                  <<CALENDAR \o " " \o upper(sport) \o " games & picks">>, <<>>)
          IN [out |-> IF loop.out.kind = "raise" THEN loop.out
                      ELSE Return(join("\n", loop.out.value)),
              requests |-> f.requests, trace |-> loop.trace]

build_daily_report(sport, source) ==
  LET f == fetch_games(sport, source)
  IN IF f.out.kind = "raise"
     THEN [out |-> Return(CROSS_MARK \o " Could not fetch " \o upper(sport) \o " games: "
                            \o f.out.exc),
           requests |-> f.requests, trace |-> <<>>]
     ELSE IF f.out.value = <<>>
     THEN [out |-> Return("No " \o upper(sport) \o " games found for today."),
           requests |-> f.requests, trace |-> <<>>]
     ELSE LET loop == report_loop(f.out.value,
                                  <<CALENDAR \o " " \o upper(sport) \o " games & picks">>, <<>>)
          IN [out |-> IF loop.out.kind = "raise" THEN loop.out
                      ELSE Return(join("\n", loop.out.value)),
              requests |-> f.requests, trace |-> loop.trace]

(* ------------------------- telegram handlers -------------------------- *)
\* the text start_cmd replies with
START_TEXT ==
  "Hey! I predict winners for MLB & NFL.\n" \o "Use /today to get both, or /today mlb or /today nfl."

\* lower left out: the tokens keep their case
lower_all_unchanged(args) == args

\* [a.lower() for a in context.args]
lower_all(args) == [i \in 1..Len(args) |-> lower(args[i])]

\* [a for a in args if a in ("mlb", "nfl")]
RECURSIVE keep_leagues(_)
keep_leagues(args) ==
  IF args = <<>> THEN <<>>
  ELSE IF Head(args) \in {"mlb", "nfl"} THEN <<Head(args)>> \o keep_leagues(Tail(args))
  ELSE keep_leagues(Tail(args))

\* the leagues today_cmd builds reports for
select_leagues(context_args) ==
  LET args == lower_all(context_args)
      to_do == IF args = <<>> THEN <<"mlb", "nfl">> ELSE keep_leagues(args)
  IN IF to_do = <<>> THEN <<"mlb", "nfl">> ELSE to_do

\* parts = [build_daily_report(s) for s in to_do], stopping at the first raise;
\* add_part takes the outcome b of the report of the first league of to_do
RECURSIVE build_parts(_, _, _, _)
RECURSIVE add_part(_, _, _, _, _)
add_part(b, to_do, source, parts, requests) ==
  IF b.out.kind = "raise"
  THEN [out |-> b.out, requests |-> requests \o b.requests]
  ELSE build_parts(Tail(to_do), source, Append(parts, b.out.value), requests \o b.requests)

build_parts(to_do, source, parts, requests) ==
  IF to_do = <<>> THEN [out |-> Return(parts), requests |-> requests]
  ELSE add_part(build_daily_report(Head(to_do), source), to_do, source, parts, requests)

\* reply_text("\n\n".join(parts)) when the comprehension p did not raise;
\* replies = the texts sent with reply_text
reply_parts(to_do, p) ==
  IF p.out.kind = "raise"
  THEN [out |-> p.out, to_do |-> to_do, parts |-> <<>>, replies |-> <<>>,
        requests |-> p.requests]
  ELSE [out |-> Return(None), to_do |-> to_do, parts |-> p.out.value,
        replies |-> <<join("\n\n", p.out.value)>>, requests |-> p.requests]

report_leagues(to_do, source) == reply_parts(to_do, build_parts(to_do, source, <<>>, <<>>))

today_cmd(context_args, source) == report_leagues(select_leagues(context_args), source)

(* ---------------------------- webhook gateway ------------------------- *)
\* await request.json(): a body is [json |-> TRUE, payload |-> p] when it is
\* JSON text for p, [json |-> FALSE, payload |-> None] when it is not JSON
request_json(body) == IF body.json THEN Return(body.payload) ELSE Raise("JSONDecodeError")

\* the endpoint without the comparison of the path token
telegram_webhook_unchecked(secret, body, env) ==
  LET payload == request_json(body)
  IN IF payload.kind = "raise"
     THEN [out |-> payload, parsed |-> <<body>>, processed |-> <<>>]
     ELSE [out |-> Return("ok"), parsed |-> <<body>>, processed |-> <<payload.value>>]

\* telegram_webhook(secret, request) with the process environment value env.
\* parsed: the bodies given to request.json(); processed: the updates given to
\* application.process_update
telegram_webhook(secret, body, env) ==
  IF secret # WEBHOOK_SECRET(env)
  THEN [out |-> Raise("HTTPException 403 forbidden"), parsed |-> <<>>, processed |-> <<>>]
  ELSE LET payload == request_json(body)
       IN IF payload.kind = "raise"
          THEN [out |-> payload, parsed |-> <<body>>, processed |-> <<>>]
          ELSE [out |-> Return("ok"), parsed |-> <<body>>, processed |-> <<payload.value>>]

(* ------------------------------ inputs -------------------------------- *)
\* a competitor entry of a raw event; records = <<>>: no "records" key
Competitor(side, id, name, records, score) ==
  [homeAway |-> side, id |-> id, displayName |-> name, records |-> records, score |-> score]

RawEvent(competitors, status) ==
  [competitors |-> competitors, status |-> status, date |-> "2024-07-04T17:05Z"]

RecordLists == {<<>>, <<"">>, <<"3">>, <<"2-1">>, <<"1-2">>, <<"1-1">>, <<"2-2-1">>}
RawScores == {None, "", "0", "2", "10"}

\* every pairing of a home and an away competitor over the sample records and scores
PairedEvents ==
  {RawEvent(<<Competitor("home", "16", "Cubs", hr, hs), Competitor("away", "21", "Mets", ar, as)>>,
            "In Progress") :
     hr \in RecordLists, hs \in RawScores, ar \in RecordLists, as \in RawScores}

\* home has the better record, away leads
EvRecord ==
  RawEvent(<<Competitor("home", "16", "Cubs", <<"2-1">>, "0"),
             Competitor("away", "21", "Mets", <<"1-2">>, "2")>>, "In Progress")
\* equal win pct, away listed first and leading
EvLeading ==
  RawEvent(<<Competitor("away", "8", "Jets", <<"1-1">>, "10"),
             Competitor("home", "12", "Colts", <<"2-2-1">>, "2")>>, "Final")
\* no home competitor
EvNoHome == RawEvent(<<Competitor("away", "21", "Mets", <<"1-2">>, "2")>>, "Scheduled")
\* no away competitor
EvNoAway ==
  RawEvent(<<Competitor("home", "16", "Cubs", <<"2-1">>, "0"),
             Competitor("home", "12", "Colts", <<>>, None)>>, "Scheduled")

FeedEvents == {EvRecord, EvLeading, EvNoHome, EvNoAway}

WellFormed(ev) ==
  /\ \E i \in 1..Len(ev.competitors) : ev.competitors[i].homeAway = "home"
  /\ \E i \in 1..Len(ev.competitors) : ev.competitors[i].homeAway = "away"

SeqsUpTo(S, n) == UNION {[1..k -> S] : k \in 0..n}

\* the events lists of a scoreboard: each game is listed once
EventLists ==
  {evs \in SeqsUpTo(FeedEvents, MaxGames) :
     \A i, j \in 1..Len(evs) : evs[i] = evs[j] => i = j}

\* what one scoreboard endpoint may answer
Responses ==
  {[ok |-> FALSE, error |-> e] : e \in {"timed out", "503 Server Error"}}
    \cup {[ok |-> TRUE, data |-> [events |-> evs]] : evs \in EventLists}
    \cup {[ok |-> TRUE, data |-> [code |-> "404"]]}

\* the answers of the two endpoints during one call
Sources == [DOMAIN ESPN_SCOREBOARD -> Responses]

\* argument tokens a user may type after /today, and leagues a caller may pass
Tokens == {"mlb", "Nfl", "xyz"}
ArgLists == SeqsUpTo(Tokens, MaxArgs)

\* tokens a webhook request path may carry
PathSecrets == {"secret123", "prod-secret", "guess"}

\* request bodies
Bodies == {[json |-> TRUE, payload |-> "/start"], [json |-> TRUE, payload |-> "/today mlb"],
           [json |-> FALSE, payload |-> None]}

(* ------------------------------- state -------------------------------- *)
VARIABLES
  environ,    \* the value of WEBHOOK_SECRET in the process environment
  fn,         \* the function or handler that ran last, "idle" between requests
  input,      \* its argument
  source,     \* what the scoreboard endpoints answered during the call
  out,        \* its outcome: a return or a raise
  requests,   \* the URLs it sent a GET to
  trace,      \* the summarizer and predictor calls it made, in order
  to_do,      \* today_cmd: the selected leagues
  parts,      \* today_cmd: the per-league reports
  replies,    \* the texts sent with reply_text
  parsed,     \* telegram_webhook: the bodies parsed
  processed   \* telegram_webhook: the updates given to process_update

vars == <<environ, fn, input, source, out, requests, trace, to_do, parts, replies,
          parsed, processed>>

NoSource == [l \in DOMAIN ESPN_SCOREBOARD |-> [ok |-> FALSE, error |-> "unused"]]

Init ==
  /\ environ \in EnvValues
  /\ fn = "idle"
  /\ input = <<>>
  /\ source = NoSource
  /\ out = Return(None)
  /\ requests = <<>>
  /\ trace = <<>>
  /\ to_do = <<>>
  /\ parts = <<>>
  /\ replies = <<>>
  /\ parsed = <<>>
  /\ processed = <<>>

\* summarize one raw event and predict its winner
PredictWinner ==
  /\ fn = "idle"
  /\ \E ev \in PairedEvents :
       /\ fn' = "predict_winner"
       /\ input' = summarize_game(ev).value
       /\ out' = Return(predict_winner(summarize_game(ev).value))
       /\ source' = NoSource
       /\ requests' = <<>>
       /\ trace' = <<>>
       /\ to_do' = <<>> /\ parts' = <<>> /\ replies' = <<>>
       /\ parsed' = <<>> /\ processed' = <<>>
       /\ UNCHANGED environ

\* build_daily_report(sport) ended with b
ReportDone(sport, src, b) ==
  /\ fn' = "build_daily_report"
  /\ input' = sport
  /\ source' = src
  /\ out' = b.out
  /\ requests' = b.requests
  /\ trace' = b.trace
  /\ to_do' = <<>> /\ parts' = <<>> /\ replies' = <<>>
  /\ parsed' = <<>> /\ processed' = <<>>
  /\ UNCHANGED environ

\* a call of build_daily_report(sport)
BuildDailyReport ==
  /\ fn = "idle"
  /\ \E sport \in Tokens \cup DOMAIN ESPN_SCOREBOARD, src \in Sources :
       ReportDone(sport, src, build_daily_report(sport, src))

\* today_cmd with the arguments args ended with t
TodayDone(args, src, t) ==
  /\ fn' = "today_cmd"
  /\ input' = args
  /\ source' = src
  /\ out' = t.out
  /\ requests' = t.requests
  /\ trace' = <<>>
  /\ to_do' = t.to_do
  /\ parts' = t.parts
  /\ replies' = t.replies
  /\ parsed' = <<>> /\ processed' = <<>>
  /\ UNCHANGED environ

\* the /today handler
TodayCmd ==
  /\ fn = "idle"
  /\ \E args \in ArgLists, src \in Sources :
       TodayDone(args, src, today_cmd(args, src))

\* the /start handler
StartCmd ==
  /\ fn = "idle"
  /\ fn' = "start_cmd"
  /\ input' = <<>>
  /\ source' = NoSource
  /\ out' = Return(None)
  /\ requests' = <<>>
  /\ trace' = <<>>
  /\ to_do' = <<>> /\ parts' = <<>>
  /\ replies' = <<START_TEXT>>
  /\ parsed' = <<>> /\ processed' = <<>>
  /\ UNCHANGED environ

\* telegram_webhook(secret, request) ended with w
WebhookDone(secret, body, w) ==
  /\ fn' = "telegram_webhook"
  /\ input' = [secret |-> secret, body |-> body]
  /\ source' = NoSource
  /\ out' = w.out
  /\ requests' = <<>>
  /\ trace' = <<>>
  /\ to_do' = <<>> /\ parts' = <<>> /\ replies' = <<>>
  /\ parsed' = w.parsed
  /\ processed' = w.processed
  /\ UNCHANGED environ

\* POST /webhook/{secret}
TelegramWebhook ==
  /\ fn = "idle"
  /\ \E secret \in PathSecrets, body \in Bodies :
       WebhookDone(secret, body, telegram_webhook(secret, body, environ))

\* the call is over and nothing of it is kept: the process waits for the next one
Await ==
  /\ fn # "idle"
  /\ fn' = "idle"
  /\ input' = <<>>
  /\ source' = NoSource
  /\ out' = Return(None)
  /\ requests' = <<>>
  /\ trace' = <<>>
  /\ to_do' = <<>> /\ parts' = <<>> /\ replies' = <<>>
  /\ parsed' = <<>> /\ processed' = <<>>
  /\ UNCHANGED environ

Next ==
  PredictWinner \/ BuildDailyReport \/ TodayCmd \/ StartCmd \/ TelegramWebhook \/ Await

Spec == Init /\ [][Next]_vars

(* ------------------------ reading the outcomes ------------------------ *)
StartsWith(t, prefix) == Len(t) >= Len(prefix) /\ SubSeq(t, 1, Len(prefix)) = prefix
EndsWith(t, suffix) ==
  Len(t) >= Len(suffix) /\ SubSeq(t, Len(t) - Len(suffix) + 1, Len(t)) = suffix

\* t.split("\n")
RECURSIVE Lines(_)
Lines(t) ==
  LET breaks == {i \in 1..Len(t) : CharAt(t, i) = "\n"}
  IN IF breaks = {} THEN <<t>>
     ELSE LET b == CHOOSE i \in breaks : \A j \in breaks : i <= j
          IN <<SubSeq(t, 1, b - 1)>> \o Lines(SubSeq(t, b + 1, Len(t)))

\* the upper-cased names of the supported leagues
LeagueName == [mlb |-> "MLB", nfl |-> "NFL"]

Supported(league) == league \in {"mlb", "nfl"}

\* the last call was build_daily_report for a supported league whose fetch ...
ReportCall == fn = "build_daily_report" /\ Supported(input)
\* ... failed
FetchFailed(league) == ~source[league].ok
\* ... succeeded with these events
FetchedEvents(league) ==
  IF "events" \in DOMAIN source[league].data THEN source[league].data.events ELSE <<>>

AllWellFormed(evs) == \A i \in 1..Len(evs) : WellFormed(evs[i])

SideOf(ev, side) ==
  ev.competitors[CHOOSE i \in 1..Len(ev.competitors) : ev.competitors[i].homeAway = side]

\* the score of a competitor as the report prints it
ScoreText(c) == IF c.score = None \/ c.score = "" THEN "0" ELSE c.score

(* ------------------------------- claims ------------------------------- *)
\* team a has the strictly higher win percentage wins/(wins+losses), 0 with no games
HigherWinPct(a, b) ==
  LET ta == a.wins + a.losses
      tb == b.wins + b.losses
  IN IF ta = 0 THEN FALSE
     ELSE IF tb = 0 THEN a.wins > 0
     ELSE a.wins * tb > b.wins * ta

\* C1: predict_winner follows the ladder on every normalized game: the team with
\* the strictly higher win percentage is picked with "better record" whatever
\* the scores; with equal percentages and different scores the higher-scoring
\* team with "leading now"; otherwise home with "home edge".  The reason is
\* always one of the three strings.
C1_TieBreakLadder ==
  fn = "predict_winner" =>
    LET h == input.home
        a == input.away
        pick == out.value[1]
        reason == out.value[2]
    IN /\ out.kind = "return"
       /\ reason \in {"better record", "leading now", "home edge"}
       /\ HigherWinPct(h, a) => pick = h.name /\ reason = "better record"
       /\ HigherWinPct(a, h) => pick = a.name /\ reason = "better record"
       /\ (~HigherWinPct(h, a) /\ ~HigherWinPct(a, h) /\ h.score > a.score)
            => pick = h.name /\ reason = "leading now"
       /\ (~HigherWinPct(h, a) /\ ~HigherWinPct(a, h) /\ a.score > h.score)
            => pick = a.name /\ reason = "leading now"
       /\ (~HigherWinPct(h, a) /\ ~HigherWinPct(a, h) /\ a.score = h.score)
            => pick = h.name /\ reason = "home edge"

\* the home team has the better record, the away team leads, home is picked
C1_Witness ==
  /\ fn = "predict_winner"
  /\ HigherWinPct(input.home, input.away)
  /\ input.away.score > input.home.score
  /\ out = Return(<<"Cubs", "better record">>)

\* C2 as stated: when the fetch fails the report is exactly
\* "Could not fetch {LEAGUE} games: {error message}"
C2_TextWithoutMark ==
  (ReportCall /\ FetchFailed(input)) =>
    /\ out.kind = "return"
    /\ StartsWith(out.value, "Could not fetch " \o LeagueName[input] \o " games:")
    /\ out.value = "Could not fetch " \o LeagueName[input] \o " games: " \o source[input].error

\* C2 amended: when the fetch fails the report is exactly the cross mark, a
\* space and "Could not fetch {LEAGUE} games: {error message}", on one line
C2_FetchFailureText ==
  (ReportCall /\ FetchFailed(input)) =>
    /\ out = Return(CROSS_MARK \o " Could not fetch " \o LeagueName[input] \o " games: "
                      \o source[input].error)
    /\ Len(Lines(out.value)) = 1
    /\ requests = <<ESPN_SCOREBOARD[input]>>

\* the nfl fetch timed out and the report says so
C2_Witness ==
  /\ ReportCall /\ input = "nfl" /\ FetchFailed("nfl")
  /\ source["nfl"].error = "timed out"
  /\ out.kind = "return" /\ EndsWith(out.value, "NFL games: timed out")

\* the source in which only the endpoint of league answers as it did, and every
\* other endpoint answers r
Alone(league, r) == [l \in DOMAIN ESPN_SCOREBOARD |-> IF l = league THEN source[l] ELSE r]

\* C3: a fetch failure never leaves build_daily_report and touches only its own
\* league: whatever each endpoint answers, with well-formed games today_cmd
\* sends one reply of one part per selected league, the error text for a league
\* whose fetch failed and, for any other, the report it gives on its own.
C3_FailureStaysInItsLeague ==
  (/\ fn = "today_cmd"
   /\ \A i \in 1..Len(to_do) :
        FetchFailed(to_do[i]) \/ AllWellFormed(FetchedEvents(to_do[i])))
  => /\ out.kind = "return"
     /\ Len(replies) = 1
     /\ Len(parts) = Len(to_do)
     /\ replies[1] = join("\n\n", parts)
     /\ \A i \in 1..Len(to_do) :
          IF FetchFailed(to_do[i])
          THEN parts[i] = CROSS_MARK \o " Could not fetch " \o LeagueName[to_do[i]]
                            \o " games: " \o source[to_do[i]].error
          ELSE \A r \in {[ok |-> FALSE, error |-> "timed out"],
                         [ok |-> TRUE, data |-> [events |-> <<EvLeading>>]]} :
                 parts[i] = build_daily_report(to_do[i], Alone(to_do[i], r)).out.value

\* /today with the mlb fetch failing and the nfl fetch giving a game: one reply,
\* the mlb error text and the nfl report
C3_Witness ==
  /\ fn = "today_cmd" /\ to_do = <<"mlb", "nfl">>
  /\ FetchFailed("mlb") /\ ~FetchFailed("nfl")
  /\ FetchedEvents("nfl") = <<EvLeading>>
  /\ Len(replies) = 1 /\ Len(parts) = 2
  /\ StartsWith(parts[2], CALENDAR \o " NFL")

\* the fetched list of the last build_daily_report call has a game without a
\* home or without an away competitor
MalformedFetched ==
  /\ ReportCall /\ ~FetchFailed(input)
  /\ \E i \in 1..Len(FetchedEvents(input)) : ~WellFormed(FetchedEvents(input)[i])

\* C4: when a fetched game lacks its home or its away competitor,
\* build_daily_report raises and returns no text: nothing for the games before
\* it, and the game is not skipped.
C4_MalformedGameAborts ==
  MalformedFetched =>
    /\ out.kind = "raise"
    /\ out.exc = "StopIteration"
    /\ trace[Len(trace)] = "summarize_game"

\* a well-formed game followed by a game without a home competitor: the call raises
C4_Witness ==
  /\ ReportCall /\ ~FetchFailed(input)
  /\ FetchedEvents(input) = <<EvRecord, EvNoHome>>
  /\ out.kind = "raise"
  /\ trace = <<"summarize_game", "predict_winner", "summarize_game">>

\* token names a supported league, whatever its case
MatchesLeague(token) == \E l \in DOMAIN ESPN_SCOREBOARD : upper(token) = LeagueName[l]
LeagueOf(token) == CHOOSE l \in DOMAIN ESPN_SCOREBOARD : upper(token) = LeagueName[l]

\* C5: today_cmd selects mlb then nfl when there is no token or no token names a
\* supported league in any case; otherwise exactly the tokens that do, the
\* others ignored.  The selection is never empty and holds supported leagues
\* only, and reports are built for the selected leagues only.
C5_LeagueSelection ==
  fn = "today_cmd" =>
    LET matching == SelectSeq(input, MatchesLeague)
    IN /\ matching = <<>> => to_do = <<"mlb", "nfl">>
       /\ matching # <<>> => to_do = [i \in 1..Len(matching) |-> LeagueOf(matching[i])]
       /\ to_do # <<>>
       /\ \A i \in 1..Len(to_do) : Supported(to_do[i])
       /\ out.kind = "return" =>
            requests = [i \in 1..Len(to_do) |-> ESPN_SCOREBOARD[to_do[i]]]

\* /today xyz Nfl selects nfl only
C5_Witness ==
  /\ fn = "today_cmd" /\ input = <<"xyz", "Nfl">>
  /\ to_do = <<"nfl">> /\ Len(requests) = 1

\* the token of the last webhook request equals the shared secret in effect
SecretMatches == input.secret = WEBHOOK_SECRET(environ)

\* C6 as stated: the update is forwarded if and only if the path token equals the
\* shared secret; a mismatch is rejected with 403 forbidden, nothing parsed or
\* forwarded; on a match the body is parsed and forwarded exactly once
C6_ForwardedIffSecret ==
  fn = "telegram_webhook" =>
    /\ SecretMatches <=> Len(processed) = 1
    /\ ~SecretMatches =>
         out = Raise("HTTPException 403 forbidden") /\ parsed = <<>> /\ processed = <<>>
    /\ SecretMatches => parsed = <<input.body>> /\ Len(processed) = 1

\* C6 amended: a mismatch is rejected with 403 forbidden, nothing parsed or
\* forwarded; on a match the body is parsed once, and forwarded exactly once
\* when it parses as an update payload, not at all (the request fails) when it
\* is not JSON.  So an update is forwarded only if the token equals the secret.
C6_ForwardedOnlyWithSecret ==
  fn = "telegram_webhook" =>
    /\ Len(processed) = 1 <=> (SecretMatches /\ input.body.json)
    /\ Len(processed) <= 1
    /\ ~SecretMatches =>
         out = Raise("HTTPException 403 forbidden") /\ parsed = <<>> /\ processed = <<>>
    /\ SecretMatches => parsed = <<input.body>>
    /\ (SecretMatches /\ input.body.json) =>
         processed = <<input.body.payload>> /\ out = Return("ok")
    /\ (SecretMatches /\ ~input.body.json) => processed = <<>> /\ out.kind = "raise"

\* a request with the configured secret and an update body is forwarded
C6_Witness ==
  /\ fn = "telegram_webhook" /\ environ = "prod-secret"
  /\ input.secret = "prod-secret"
  /\ processed = <<"/today mlb">>

\* text is the fetch-failure text of league, with or without the leading mark
IsFetchFailureText(text, league) ==
  \/ StartsWith(text, "Could not fetch " \o upper(league) \o " games: ")
  \/ StartsWith(text, CROSS_MARK \o " Could not fetch " \o upper(league) \o " games: ")

\* C7: build_daily_report with a league outside {mlb, nfl} is rejected before
\* the fetcher does any work: the outcome is not the fetch-failure text and no
\* outbound request is made
C7_UnsupportedLeagueRejected ==
  (fn = "build_daily_report" /\ ~Supported(input)) =>
    /\ ~(out.kind = "return" /\ IsFetchFailureText(out.value, input))
    /\ requests = <<>>

\* the last build_daily_report call fetched an empty or missing events list
FetchedNothing == ReportCall /\ ~FetchFailed(input) /\ FetchedEvents(input) = <<>>

\* C8: when the fetch succeeds with no games (an empty or a missing events
\* list), the report is exactly "No {LEAGUE} games found for today.", without
\* the header line and without a summarizer or predictor call
C8_NoGamesText ==
  FetchedNothing =>
    /\ out = Return("No " \o LeagueName[input] \o " games found for today.")
    /\ ~StartsWith(out.value, CALENDAR)
    /\ Len(Lines(out.value)) = 1
    /\ trace = <<>>

\* the mlb body has no "events" key and the report says there are no games
C8_Witness ==
  /\ FetchedNothing /\ input = "mlb"
  /\ "events" \notin DOMAIN source["mlb"].data
  /\ out = Return("No MLB games found for today.")

\* line describes the raw game ev: away @ home first, and the score away-home last
DescribesGame(line, ev) ==
  LET home == SideOf(ev, "home")
      away == SideOf(ev, "away")
  IN /\ StartsWith(line, BULLET \o " " \o away.displayName \o " @ " \o home.displayName
                           \o " " \o EM_DASH \o " pick: **")
     /\ EndsWith(line, "[" \o ev.status \o "; score " \o ScoreText(away) \o "-"
                         \o ScoreText(home) \o "]")

\* C9: when the fetch succeeds with n >= 1 well-formed games the report has
\* n + 1 lines: the header, then one line per game in the order fetched, each
\* with the away score before the home score whoever is picked
C9_OneLinePerGameInOrder ==
  (/\ ReportCall /\ ~FetchFailed(input)
   /\ FetchedEvents(input) # <<>> /\ AllWellFormed(FetchedEvents(input)))
  => /\ out.kind = "return"
     /\ LET evs == FetchedEvents(input)
            ls == Lines(out.value)
        IN /\ Len(ls) = Len(evs) + 1
           /\ ls[1] = CALENDAR \o " " \o LeagueName[input] \o " games & picks"
           /\ \A i \in 1..Len(evs) : DescribesGame(ls[i + 1], evs[i])
     /\ trace = [i \in 1..(2 * Len(FetchedEvents(input))) |->
                   IF i % 2 = 1 THEN "summarize_game" ELSE "predict_winner"]

\* two games, the first picked for the away team and the second for the home
\* team: three lines, both scores away-home
C9_Witness ==
  /\ ReportCall /\ ~FetchFailed(input)
  /\ FetchedEvents(input) = <<EvLeading, EvRecord>>
  /\ out.kind = "return" /\ Len(Lines(out.value)) = 3
  /\ EndsWith(Lines(out.value)[2], "(leading now)  [Final; score 10-2]")
  /\ EndsWith(Lines(out.value)[3], "(better record)  [In Progress; score 2-0]")

\* C10: no built-in secret is in effect: an update is forwarded only when its
\* token equals a secret that was set in the environment
C10_NoDefaultSecret ==
  (fn = "telegram_webhook" /\ processed # <<>>) =>
    environ # None /\ input.secret = environ

====
